---- MODULE Spec2Model ----
(***************************************************************************)
(* Model of the PoseCamera component (src/unnamed/part_000): the frame     *)
(* loop started by startPoseLoop, the per-frame processPose pipeline (rep  *)
(* phase machine, form statistics accumulator, windowed flush) and the     *)
(* pure helpers getPoint, calculateAngle and interpretForm; and the        *)
(* processPose of the component's other variant (src/unnamed/part_001),    *)
(* which has the same phase machine and no form statistics.                *)
(*                                                                         *)
(* Numbers.  JavaScript numbers that the code divides (the mean of the two *)
(* shoulders, the window averages) are kept as exact rationals             *)
(* [num, den] in lowest terms with den > 0.  Keypoint coordinates are      *)
(* integer pixels, keypoint confidences are integer hundredths (0.4 is     *)
(* 40), times are integer milliseconds.  An angle calculateAngle returns  *)
(* is a double: it is kept exactly where the double is exact, and          *)
(* otherwise as each of the hundredths of a degree that enclose it.        *)
(***************************************************************************)
EXTENDS Integers, Sequences, FiniteSets

\* ------------------------------------------------------------ rationals

RECURSIVE Gcd(_, _)
Gcd(a, b) == IF b = 0 THEN a ELSE Gcd(b, a % b)

IAbs(n) == IF n < 0 THEN -n ELSE n

\* n/d in lowest terms, d > 0
Rat(n, d) ==
  LET g == Gcd(IAbs(n), d)
  IN  [num |-> n \div g, den |-> d \div g]

Q(n) == [num |-> n, den |-> 1]

RatAdd(a, b) == Rat(a.num * b.den + b.num * a.den, a.den * b.den)
RatSub(a, b) == Rat(a.num * b.den - b.num * a.den, a.den * b.den)
RatDivInt(a, k) == Rat(a.num, a.den * k)
RatLt(a, b) == a.num * b.den < b.num * a.den
RatGt(a, b) == RatLt(b, a)
RatLe(a, b) == ~RatLt(b, a)
RatMin(a, b) == IF RatLt(b, a) THEN b ELSE a
RatMax(a, b) == IF RatLt(a, b) THEN b ELSE a

\* Array.prototype.reduce((sum, val) => sum + val, 0)
RECURSIVE RatSum(_)
RatSum(s) == IF s = <<>> THEN Q(0) ELSE RatAdd(s[1], RatSum(Tail(s)))

\* ------------------------------------------------------------ constants

\* the JavaScript value undefined (a find with no match)
Undefined == [undefined |-> TRUE]

\* A slot of a keypoints array that holds no keypoint: null (or undefined),
\* or an empty slot, which forEach skips and find reads as undefined.
Null == [null |-> TRUE]
Hole == [hole |-> TRUE]

\* reading a property of what the slot gives throws a TypeError
NoObject(kp) == kp = Null \/ kp = Hole

\* the outcome of a call that threw
Thrown == [thrown |-> TRUE]

\* the slots of a keypoints array that hold no object; no read of a
\* keypoint's property throws when there is none
Gaps(keypoints) == { i \in 1..Len(keypoints) : NoObject(keypoints[i]) }

\* kp.score > 0.4, in hundredths
ScoreThreshold == 40

downThreshold == 52
upThreshold == 40
minimumRange == 70

\* elapsed >= 3000
FeedbackWindow == 3000

InitialScore == 100
MinScore == 60
MaxScore == 100

MsgStart == "Start in a straight high plank and begin your first pushup."
MsgSolid == "Solid pushup - keep elbows tracking toward your ribs."
MsgTooDeep == "Don't dive too deep - aim for about 90 deg at the elbows."
MsgLowerMore == "Lower more; get elbows to roughly 90 deg for full range."
MsgNice == "Nice elbow bend - controlled 90 deg range."
MsgStack == "Stack wrists under shoulders to avoid flaring the elbows."
MsgTilt == "Keep shoulders level; avoid twisting on the way up."

\* ------------------------------------------------------------ bounds

\* most samples held in each accumulator sequence
MaxSamples == 2
\* most reps counted
MaxReps == 2
\* the clock runs to MaxWindows feedback windows
MaxWindows == 2

\* ------------------------------------------------------------ pure helpers

\* getPoint accepting a confidence of exactly 0.4
getPoint_AtThreshold(pose, name) ==
  LET Stops(kp) ==
        NoObject(kp) \/ (kp.name = name /\ kp.score >= ScoreThreshold)
      hits == SelectSeq(pose.keypoints, Stops)
  IN  IF hits = <<>> THEN Undefined
      ELSE IF NoObject(hits[1]) THEN Thrown
      ELSE hits[1]

\* pose.keypoints.find((kp) => kp.name === name && kp.score > 0.4): find
\* goes through the slots in order and stops at the first keypoint that
\* passes the test, or at the first slot that holds no object, where
\* reading kp.name throws
getPoint(pose, name) ==
  LET Stops(kp) ==
        NoObject(kp) \/ (kp.name = name /\ kp.score > ScoreThreshold)
      hits == SelectSeq(pose.keypoints, Stops)
  IN  IF hits = <<>> THEN Undefined
      ELSE IF NoObject(hits[1]) THEN Thrown
      ELSE hits[1]

\* atan(2^-i) for i = 0..23, in millionths of a degree
AtanTable ==
  <<45000000, 26565051, 14036243, 7125016, 3576334, 1789911, 895174,
    447614, 223811, 111906, 55953, 27976, 13988, 6994, 3497, 1749, 874,
    437, 219, 109, 55, 27, 14, 7>>

\* The angle of the vector (x, y), x > 0, in millionths of a degree, after
\* the rotations i..24 that turn the vector onto the x axis; z is the angle
\* turned so far.
RECURSIVE Atan2Steps(_, _, _, _)
Atan2Steps(i, x, y, z) ==
  IF i > Len(AtanTable) THEN z
  ELSE LET sh == 2^(i - 1)
       IN  IF y > 0
             THEN Atan2Steps(i + 1, x + (y \div sh), y - (x \div sh),
                             z + AtanTable[i])
             ELSE Atan2Steps(i + 1, x - (y \div sh), y + (x \div sh),
                             z - AtanTable[i])

\* acos(dot / (magAB * magCB)) in millionths of a degree, for segments of
\* non-zero length: the angle between them, whose cosine is that quotient
\* and whose sine is |cross| / (magAB * magCB).  The quotient of the exact
\* values lies in [-1, 1], where the clamp leaves it as it is.
AcosMicro(dot, cross) ==
  LET x == IAbs(dot)
      y == IAbs(cross)
      m == IF x > y THEN x ELSE y
      k == IF m > 2^28 THEN 1 ELSE 2^28 \div m
      phi == IF y = 0 THEN 0
             ELSE IF x = 0 THEN 90000000
             ELSE Atan2Steps(1, k * x, k * y, 0)
  IN  IF dot >= 0 THEN phi ELSE 180000000 - phi

\* The hundredths of a degree a double within 0.0001 degrees of m
\* millionths may equal or lie between: the grid points below and above it.
Readings(m) ==
  LET lo == (m - 100) \div 10000
      hi == -((-(m + 100)) \div 10000)
      from == IF lo < 0 THEN 0 ELSE lo
      to == IF hi > 18000 THEN 18000 ELSE hi
  IN  { Rat(h, 100) : h \in from..to }

\* The included angle at b, in degrees.  The code returns a double, which
\* cannot be kept here; this is the set of values it is read as, in
\* hundredths of a degree.  Where the double is exact the set holds that
\* value alone: a zero-length segment gives 180; perpendicular segments
\* have cosine 0 / (magAB * magCB) = 0 and give 90; collinear segments
\* along an axis have exact lengths, cosine 1 or -1, and give 0 or 180.
\* Otherwise the double is the angle up to its rounding (at most 0.000002
\* degrees, near 0 and 180) and the rotations above are right to 0.00002
\* degrees, so it lies within 0.0001 degrees of AcosMicro: the set holds
\* the hundredths below and above it, and a comparison of the double with
\* a threshold comes out as it does for one of them.
calculateAngle(a, b, c) ==
  LET abx == a.x - b.x
      aby == a.y - b.y
      cbx == c.x - b.x
      cby == c.y - b.y
      dot == abx * cbx + aby * cby
      cross == abx * cby - aby * cbx
      zeroAB == abx = 0 /\ aby = 0
      zeroCB == cbx = 0 /\ cby = 0
      alongAxis == (abx = 0 \/ aby = 0) /\ (cbx = 0 \/ cby = 0)
  IN  IF zeroAB \/ zeroCB THEN {Q(180)}
      ELSE IF dot = 0 THEN {Q(90)}
      ELSE IF cross = 0 /\ alongAxis
        THEN {IF dot > 0 THEN Q(0) ELSE Q(180)}
      ELSE Readings(AcosMicro(dot, cross))

\* interpretForm without the final clamp
interpretForm_NoClamp(averageElbowAngle, averageStack, shoulderTilt) ==
  LET r0 == [message |-> MsgSolid, newScore |-> 100]
      r1 == IF RatLt(averageElbowAngle, Q(75))
              THEN [message |-> MsgTooDeep, newScore |-> r0.newScore - 20]
            ELSE IF RatGt(averageElbowAngle, Q(150))
              THEN [message |-> MsgLowerMore, newScore |-> r0.newScore - 15]
            ELSE [r0 EXCEPT !.message = MsgNice]
      r2 == IF RatGt(averageStack, Q(90))
              THEN [message |-> MsgStack, newScore |-> r1.newScore - 20]
            ELSE r1
      r3 == IF RatGt(shoulderTilt, Q(40))
              THEN [message |-> MsgTilt, newScore |-> r2.newScore - 15]
            ELSE r2
  IN  [message |-> r3.message, score |-> r3.newScore]

\* interpretForm with the elbow comparisons not strict (<= 75, >= 150)
interpretForm_NotStrict(averageElbowAngle, averageStack, shoulderTilt) ==
  LET r0 == [message |-> MsgSolid, newScore |-> 100]
      r1 == IF RatLe(averageElbowAngle, Q(75))
              THEN [message |-> MsgTooDeep, newScore |-> r0.newScore - 20]
            ELSE IF RatLe(Q(150), averageElbowAngle)
              THEN [message |-> MsgLowerMore, newScore |-> r0.newScore - 15]
            ELSE [r0 EXCEPT !.message = MsgNice]
      r2 == IF RatGt(averageStack, Q(90))
              THEN [message |-> MsgStack, newScore |-> r1.newScore - 20]
            ELSE r1
      r3 == IF RatGt(shoulderTilt, Q(40))
              THEN [message |-> MsgTilt, newScore |-> r2.newScore - 15]
            ELSE r2
      lo == IF MaxScore < r3.newScore THEN MaxScore ELSE r3.newScore
      clamped == IF MinScore > lo THEN MinScore ELSE lo
  IN  [message |-> r3.message, score |-> clamped]

\* interpretForm with the tilt rule evaluated before the wrist-stack rule
interpretForm_TiltFirst(averageElbowAngle, averageStack, shoulderTilt) ==
  LET r0 == [message |-> MsgSolid, newScore |-> 100]
      r1 == IF RatLt(averageElbowAngle, Q(75))
              THEN [message |-> MsgTooDeep, newScore |-> r0.newScore - 20]
            ELSE IF RatGt(averageElbowAngle, Q(150))
              THEN [message |-> MsgLowerMore, newScore |-> r0.newScore - 15]
            ELSE [r0 EXCEPT !.message = MsgNice]
      r2 == IF RatGt(shoulderTilt, Q(40))
              THEN [message |-> MsgTilt, newScore |-> r1.newScore - 15]
            ELSE r1
      r3 == IF RatGt(averageStack, Q(90))
              THEN [message |-> MsgStack, newScore |-> r2.newScore - 20]
            ELSE r2
      lo == IF MaxScore < r3.newScore THEN MaxScore ELSE r3.newScore
      clamped == IF MinScore > lo THEN MinScore ELSE lo
  IN  [message |-> r3.message, score |-> clamped]

interpretForm(averageElbowAngle, averageStack, shoulderTilt) ==
  LET r0 == [message |-> MsgSolid, newScore |-> 100]
      r1 == IF RatLt(averageElbowAngle, Q(75))
              THEN [message |-> MsgTooDeep, newScore |-> r0.newScore - 20]
            ELSE IF RatGt(averageElbowAngle, Q(150))
              THEN [message |-> MsgLowerMore, newScore |-> r0.newScore - 15]
            ELSE [r0 EXCEPT !.message = MsgNice]
      r2 == IF RatGt(averageStack, Q(90))
              THEN [message |-> MsgStack, newScore |-> r1.newScore - 20]
            ELSE r1
      r3 == IF RatGt(shoulderTilt, Q(40))
              THEN [message |-> MsgTilt, newScore |-> r2.newScore - 15]
            ELSE r2
      lo == IF MaxScore < r3.newScore THEN MaxScore ELSE r3.newScore
      clamped == IF MinScore > lo THEN MinScore ELSE lo
  IN  [message |-> r3.message, score |-> clamped]

\* ------------------------------------------------------------ drawSkeleton

\* const adjacentPairs = [...]
adjacentPairs ==
  << <<"leftShoulder", "rightShoulder">>,
     <<"leftShoulder", "leftElbow">>,
     <<"leftElbow", "leftWrist">>,
     <<"rightShoulder", "rightElbow">>,
     <<"rightElbow", "rightWrist">>,
     <<"leftShoulder", "leftHip">>,
     <<"rightShoulder", "rightHip">>,
     <<"leftHip", "rightHip">>,
     <<"leftHip", "leftKnee">>,
     <<"leftKnee", "leftAnkle">>,
     <<"rightHip", "rightKnee">>,
     <<"rightKnee", "rightAnkle">> >>

\* keypoints.find((kp) => kp.name === name), which throws at a slot that
\* holds no object
getKP(keypoints, name) ==
  LET Stops(kp) == NoObject(kp) \/ kp.name = name
      hits == SelectSeq(keypoints, Stops)
  IN  IF hits = <<>> THEN Undefined
      ELSE IF NoObject(hits[1]) THEN Thrown
      ELSE hits[1]

\* kp?.score > 0.4 (false for undefined)
ScoreAbove(kp) == kp # Undefined /\ kp.score > ScoreThreshold

\* ctx.moveTo(kpA.x, kpA.y); ctx.lineTo(kpB.x, kpB.y); ctx.stroke()
Segment(kpA, kpB) == [from |-> <<kpA.x, kpA.y>>, to |-> <<kpB.x, kpB.y>>]

\* the least member of a non-empty set of numbers
Least(S) == CHOOSE i \in S : \A j \in S : i <= j

\* what drawSkeleton(pose) draws on the canvas it has cleared, until it
\* returns or throws: the markers filled (their centres) and the segments
\* stroked.  keypoints.forEach passes over empty slots and throws at the
\* first null, reading kp.score; the pairs are then taken in order, and the
\* first whose getKP runs into a slot with no object throws.
Drawn(pose) ==
  LET keypoints == pose.keypoints
      nulls == { i \in 1..Len(keypoints) : keypoints[i] = Null }
      visited == IF nulls = {} THEN Len(keypoints) ELSE Least(nulls) - 1
      shown == { i \in 1..visited :
                  /\ keypoints[i] # Hole
                  /\ keypoints[i].score > ScoreThreshold }
      failing == IF Gaps(keypoints) = {} THEN {}
                 ELSE { i \in 1..Len(adjacentPairs) :
                         \/ getKP(keypoints, adjacentPairs[i][1]) = Thrown
                         \/ getKP(keypoints, adjacentPairs[i][2]) = Thrown }
      reached == IF nulls # {} THEN 0
                 ELSE IF failing = {} THEN Len(adjacentPairs)
                 ELSE Least(failing) - 1
      joined == { i \in 1..reached :
                   /\ ScoreAbove(getKP(keypoints, adjacentPairs[i][1]))
                   /\ ScoreAbove(getKP(keypoints, adjacentPairs[i][2])) }
  IN  [markers |-> { <<keypoints[i].x, keypoints[i].y>> : i \in shown },
       segments |-> { Segment(getKP(keypoints, adjacentPairs[i][1]),
                              getKP(keypoints, adjacentPairs[i][2])) :
                        i \in joined },
       threw |-> nulls # {} \/ failing # {}]

\* ------------------------------------------------------------ state

VARIABLES
  repStateRef,   \* repStateRef.current: phase, repCount, then topY, bottomY
  formStatsRef,  \* formStatsRef.current: angles, stacks, tilts, lastFeedbackTime
  repCount,      \* useState: the rep count shown
  feedback,      \* useState: the feedback message shown
  score,         \* useState: the form score shown
  detectorRef,   \* detectorRef.current
  pc,            \* where init() / the frame loop stands
  clock,         \* the last value Date.now() returned
  inFlight,      \* estimatePoses calls made and not yet settled
  queued,        \* calls of frame() due: the first one, or animation-frame
                 \* callbacks requested and not yet run
  fed,           \* history: the shoulder heights fed to the phase machine
  seen,          \* history: extremes of the heights fed in the current
                 \* excursion of the phase machine
  strokes,       \* the segments on the canvas
  args,          \* the triple last handed to interpretForm
  videoRef,      \* videoRef.current
  canvasRef,     \* canvasRef.current
  rerender       \* the render of PoseCamera React has scheduled: "none",
                 \* "state" (a setter was called), or "size" (setVideoSize
                 \* was: the render gives the canvas its width and height)

vars == <<repStateRef, formStatsRef, repCount, feedback, score,
          detectorRef, pc, clock, inFlight, queued, fed, seen, strokes,
          args, videoRef, canvasRef, rerender>>

\* The render React has scheduled once setters have run.  A setter called
\* with a value other than the state's brings a render (changed); called
\* with the state's own value it may bring one or be dropped, as React
\* decides from its queue; after the unmount it brings none.  A render
\* already scheduled takes the new state with it.
Scheduled(called, changed) ==
  IF videoRef = "null" \/ ~called THEN {rerender}
  ELSE IF rerender = "size" THEN {"size"}
  ELSE IF changed THEN {"state"}
  ELSE {rerender, "state"}

progVars == <<repStateRef, formStatsRef, repCount, feedback, score>>

\* ------------------------------------------------------------ processPose

\* const shoulderY = (leftShoulder.y + rightShoulder.y) / 2
ShoulderY(leftShoulder, rightShoulder) ==
  RatDivInt(Q(leftShoulder.y + rightShoulder.y), 2)

\* the state after "if (state.topY === undefined) { ... }"
Seeded(state, shoulderY) ==
  IF "topY" \notin DOMAIN state
    THEN [phase |-> state.phase, repCount |-> state.repCount,
          topY |-> shoulderY, bottomY |-> shoulderY]
    ELSE state

\* WentDown with the descent test not strict (>= downThreshold)
WentDown_NotStrict(state, shoulderY) ==
  LET s == Seeded(state, shoulderY)
  IN  /\ s.phase = "top"
      /\ RatLe(Q(downThreshold), RatSub(shoulderY, RatMin(s.topY, shoulderY)))

\* phase top: the descent test, after topY = min(topY, shoulderY)
WentDown(state, shoulderY) ==
  LET s == Seeded(state, shoulderY)
  IN  /\ s.phase = "top"
      /\ RatGt(RatSub(shoulderY, RatMin(s.topY, shoulderY)), Q(downThreshold))

\* RepCounted without the minimumRange gate
RepCounted_NoRangeGate(state, shoulderY) ==
  LET s == Seeded(state, shoulderY)
      b == RatMax(s.bottomY, shoulderY)
  IN  /\ s.phase = "bottom"
      /\ RatGt(RatSub(b, shoulderY), Q(upThreshold))

\* RepCounted without the upThreshold test
RepCounted_NoRiseTest(state, shoulderY) ==
  LET s == Seeded(state, shoulderY)
      b == RatMax(s.bottomY, shoulderY)
  IN  /\ s.phase = "bottom"
      /\ RatGt(RatSub(b, s.topY), Q(minimumRange))

\* phase bottom: the rep test, after bottomY = max(bottomY, shoulderY)
RepCounted(state, shoulderY) ==
  LET s == Seeded(state, shoulderY)
      b == RatMax(s.bottomY, shoulderY)
  IN  /\ s.phase = "bottom"
      /\ RatGt(RatSub(b, shoulderY), Q(upThreshold))
      /\ RatGt(RatSub(b, s.topY), Q(minimumRange))

\* RepUpdate that leaves bottomY where the descent seeded it
RepUpdate_NoBottomMax(state, shoulderY) ==
  LET s == Seeded(state, shoulderY)
  IN  IF s.phase = "top"
        THEN LET t == [s EXCEPT !.topY = RatMin(s.topY, shoulderY)]
             IN  IF WentDown(state, shoulderY)
                   THEN [t EXCEPT !.phase = "bottom", !.bottomY = shoulderY]
                   ELSE t
      ELSE IF s.phase = "bottom"
        THEN IF RatGt(RatSub(s.bottomY, shoulderY), Q(upThreshold))
                /\ RatGt(RatSub(s.bottomY, s.topY), Q(minimumRange))
               THEN [s EXCEPT !.phase = "top", !.topY = shoulderY,
                              !.repCount = s.repCount + 1]
               ELSE s
      ELSE s

\* RepUpdate that counts the rep but forgets to return to phase top
RepUpdate_NoPhaseReset(state, shoulderY) ==
  LET s == Seeded(state, shoulderY)
  IN  IF s.phase = "top"
        THEN LET t == [s EXCEPT !.topY = RatMin(s.topY, shoulderY)]
             IN  IF WentDown(state, shoulderY)
                   THEN [t EXCEPT !.phase = "bottom", !.bottomY = shoulderY]
                   ELSE t
      ELSE IF s.phase = "bottom"
        THEN LET b == [s EXCEPT !.bottomY = RatMax(s.bottomY, shoulderY)]
             IN  IF RepCounted(state, shoulderY)
                   THEN [b EXCEPT !.topY = shoulderY,
                                  !.repCount = b.repCount + 1]
                   ELSE b
      ELSE s

\* RepUpdate that does not seed bottomY on the descent
RepUpdate_NoBottomSeed(state, shoulderY) ==
  LET s == Seeded(state, shoulderY)
  IN  IF s.phase = "top"
        THEN LET t == [s EXCEPT !.topY = RatMin(s.topY, shoulderY)]
             IN  IF WentDown(state, shoulderY)
                   THEN [t EXCEPT !.phase = "bottom"]
                   ELSE t
      ELSE IF s.phase = "bottom"
        THEN LET b == [s EXCEPT !.bottomY = RatMax(s.bottomY, shoulderY)]
             IN  IF RepCounted(state, shoulderY)
                   THEN [b EXCEPT !.phase = "top", !.topY = shoulderY,
                                  !.repCount = b.repCount + 1]
                   ELSE b
      ELSE s

\* RepUpdate that leaves topY where it was seeded while in phase top
RepUpdate_NoTopMin(state, shoulderY) ==
  LET s == Seeded(state, shoulderY)
  IN  IF s.phase = "top"
        THEN IF WentDown(state, shoulderY)
               THEN [s EXCEPT !.phase = "bottom", !.bottomY = shoulderY]
               ELSE s
      ELSE IF s.phase = "bottom"
        THEN LET b == [s EXCEPT !.bottomY = RatMax(s.bottomY, shoulderY)]
             IN  IF RepCounted(state, shoulderY)
                   THEN [b EXCEPT !.phase = "top", !.topY = shoulderY,
                                  !.repCount = b.repCount + 1]
                   ELSE b
      ELSE s

\* the rep phase machine: repStateRef.current after one frame
RepUpdate(state, shoulderY) ==
  LET s == Seeded(state, shoulderY)
  IN  IF s.phase = "top"
        THEN LET t == [s EXCEPT !.topY = RatMin(s.topY, shoulderY)]
             IN  IF WentDown(state, shoulderY)
                   THEN [t EXCEPT !.phase = "bottom", !.bottomY = shoulderY]
                   ELSE t
      ELSE IF s.phase = "bottom"
        THEN LET b == [s EXCEPT !.bottomY = RatMax(s.bottomY, shoulderY)]
             IN  IF RepCounted(state, shoulderY)
                   THEN [b EXCEPT !.phase = "top", !.topY = shoulderY,
                                  !.repCount = b.repCount + 1]
                   ELSE b
      ELSE s

\* averageElbowAngle, averageStack, shoulderTilt of one frame, for each
\* reading of the two elbow angles; j holds the six points getPoint returned
Sample(j) ==
  LET wristStackLeft == IAbs(j.leftShoulder.x - j.leftWrist.x)
      wristStackRight == IAbs(j.rightShoulder.x - j.rightWrist.x)
  IN  { [angle |-> RatDivInt(RatAdd(leftElbowAngle, rightElbowAngle), 2),
         stack |-> RatDivInt(Q(wristStackLeft + wristStackRight), 2),
         tilt |-> Q(IAbs(j.leftShoulder.y - j.rightShoulder.y))] :
        leftElbowAngle \in
          calculateAngle(j.leftShoulder, j.leftElbow, j.leftWrist),
        rightElbowAngle \in
          calculateAngle(j.rightShoulder, j.rightElbow, j.rightWrist) }

\* if (leftShoulder && rightShoulder && leftElbow && rightElbow &&
\*     leftWrist && rightWrist)
AllSix(j) ==
  /\ j.leftShoulder # Undefined /\ j.rightShoulder # Undefined
  /\ j.leftElbow # Undefined /\ j.rightElbow # Undefined
  /\ j.leftWrist # Undefined /\ j.rightWrist # Undefined

\* Accumulated with the tilt pushed for every frame that shows the shoulders
Accumulated_TiltAlways(stats, j) ==
  IF AllSix(j)
    THEN { [stats EXCEPT !.angles = Append(@, m.angle),
                         !.stacks = Append(@, m.stack),
                         !.tilts = Append(@, m.tilt)] : m \in Sample(j) }
    ELSE { [stats EXCEPT !.tilts =
              Append(@, Q(IAbs(j.leftShoulder.y - j.rightShoulder.y)))] }

\* Accumulated with the three push calls left out
Accumulated_NoPush(stats, j) == {stats}

\* formStatsRef.current after the three push calls, if they run, for each
\* reading of the frame's sample
Accumulated(stats, j) ==
  IF AllSix(j)
    THEN { [stats EXCEPT !.angles = Append(@, m.angle),
                         !.stacks = Append(@, m.stack),
                         !.tilts = Append(@, m.tilt)] : m \in Sample(j) }
    ELSE {stats}

\* FlushDue without the window test
FlushDue_NoWindow(stats, now) ==
  /\ Len(stats.angles) > 0
  /\ Len(stats.stacks) > 0
  /\ Len(stats.tilts) > 0

\* the flush test on the accumulated statistics
FlushDue(stats, now) ==
  /\ now - stats.lastFeedbackTime >= FeedbackWindow
  /\ Len(stats.angles) > 0
  /\ Len(stats.stacks) > 0
  /\ Len(stats.tilts) > 0

Mean(s) == RatDivInt(RatSum(s), Len(s))

\* avgAngle, avgStack, avgTilt
WindowArgs(stats) ==
  <<Mean(stats.angles), Mean(stats.stacks), Mean(stats.tilts)>>

\* const form = interpretForm(avgAngle, avgStack, avgTilt)
WindowForm(stats) ==
  interpretForm(Mean(stats.angles), Mean(stats.stacks), Mean(stats.tilts))

\* Flushed with lastFeedbackTime left as it is
Flushed_TimeKept(stats, now) ==
  [angles |-> <<>>, stacks |-> <<>>, tilts |-> <<>>,
   lastFeedbackTime |-> stats.lastFeedbackTime]

\* Flushed with the three sequences left as they are
Flushed_NotCleared(stats, now) ==
  [angles |-> stats.angles, stacks |-> stats.stacks, tilts |-> stats.tilts,
   lastFeedbackTime |-> now]

\* formStatsRef.current after the flush
Flushed(stats, now) ==
  [angles |-> <<>>, stacks |-> <<>>, tilts |-> <<>>, lastFeedbackTime |-> now]

\* processPose(pose) throws: a getPoint it calls throws.  The shoulders
\* are looked up first; the other four joints only when both were found.
processPoseThrows(pose) ==
  LET leftShoulder == getPoint(pose, "left_shoulder")
      rightShoulder == getPoint(pose, "right_shoulder")
  IN  /\ Gaps(pose.keypoints) # {}
      /\ IF Thrown \in {leftShoulder, rightShoulder} THEN TRUE
         ELSE /\ leftShoulder # Undefined
              /\ rightShoulder # Undefined
              /\ Thrown \in { getPoint(pose, name) :
                                name \in {"left_elbow", "right_elbow",
                                          "left_wrist", "right_wrist"} }

\* processPose with setRepCount called before the increment: the count shown
\* is the one before this rep
processPose_StaleCount(pose, now) ==
  LET leftShoulder == getPoint(pose, "left_shoulder")
      rightShoulder == getPoint(pose, "right_shoulder")
  IN  IF \/ leftShoulder \in {Thrown, Undefined}
         \/ rightShoulder \in {Thrown, Undefined}
        THEN UNCHANGED <<progVars, args, clock, rerender>>
        ELSE
          LET shoulderY == ShoulderY(leftShoulder, rightShoulder)
              joints == [leftShoulder |-> leftShoulder,
                         rightShoulder |-> rightShoulder,
                         leftElbow |-> getPoint(pose, "left_elbow"),
                         rightElbow |-> getPoint(pose, "right_elbow"),
                         leftWrist |-> getPoint(pose, "left_wrist"),
                         rightWrist |-> getPoint(pose, "right_wrist")]
              counted == RepCounted(repStateRef, shoulderY)
          IN  /\ repStateRef' = RepUpdate(repStateRef, shoulderY)
              /\ repCount' = IF counted THEN repStateRef.repCount ELSE repCount
              /\ IF processPoseThrows(pose)
                   THEN /\ UNCHANGED <<formStatsRef, feedback, score, args,
                                       clock>>
                        /\ rerender' \in
                             Scheduled(counted, repCount' # repCount)
                   ELSE
                     /\ clock' = now
                     /\ \E stats \in Accumulated(formStatsRef, joints) :
                          IF FlushDue(stats, now)
                            THEN LET form == WindowForm(stats)
                                 IN  /\ args' = WindowArgs(stats)
                                     /\ feedback' = form.message
                                     /\ score' = form.score
                                     /\ formStatsRef' = Flushed(stats, now)
                                     /\ rerender' \in
                                          Scheduled(TRUE,
                                            <<repCount', form.message,
                                              form.score>>
                                            # <<repCount, feedback, score>>)
                            ELSE /\ formStatsRef' = stats
                                 /\ UNCHANGED <<feedback, score, args>>
                                 /\ rerender' \in
                                      Scheduled(counted, repCount' # repCount)

\* processPose(pose), until it returns or throws, with Date.now() returning
\* now if it is read: it is not when the function returns for want of a
\* shoulder, nor when a getPoint throws.  A throw at a shoulder changes
\* nothing; a throw at an elbow or a wrist comes after the rep machine has
\* run and the count has been published.
processPose(pose, now) ==
  LET leftShoulder == getPoint(pose, "left_shoulder")
      rightShoulder == getPoint(pose, "right_shoulder")
  IN  IF \/ leftShoulder \in {Thrown, Undefined}
         \/ rightShoulder \in {Thrown, Undefined}
        THEN UNCHANGED <<progVars, args, clock, rerender>>
        ELSE
          LET shoulderY == ShoulderY(leftShoulder, rightShoulder)
              joints == [leftShoulder |-> leftShoulder,
                         rightShoulder |-> rightShoulder,
                         leftElbow |-> getPoint(pose, "left_elbow"),
                         rightElbow |-> getPoint(pose, "right_elbow"),
                         leftWrist |-> getPoint(pose, "left_wrist"),
                         rightWrist |-> getPoint(pose, "right_wrist")]
              counted == RepCounted(repStateRef, shoulderY)
          IN  /\ repStateRef' = RepUpdate(repStateRef, shoulderY)
              /\ repCount' = IF counted THEN repStateRef'.repCount ELSE repCount
              /\ IF processPoseThrows(pose)
                   THEN /\ UNCHANGED <<formStatsRef, feedback, score, args,
                                       clock>>
                        /\ rerender' \in
                             Scheduled(counted, repCount' # repCount)
                   ELSE
                     /\ clock' = now
                     /\ \E stats \in Accumulated(formStatsRef, joints) :
                          IF FlushDue(stats, now)
                            THEN LET form == WindowForm(stats)
                                 IN  /\ args' = WindowArgs(stats)
                                     /\ feedback' = form.message
                                     /\ score' = form.score
                                     /\ formStatsRef' = Flushed(stats, now)
                                     /\ rerender' \in
                                          Scheduled(TRUE,
                                            <<repCount', form.message,
                                              form.score>>
                                            # <<repCount, feedback, score>>)
                            ELSE /\ formStatsRef' = stats
                                 /\ UNCHANGED <<feedback, score, args>>
                                 /\ rerender' \in
                                      Scheduled(counted, repCount' # repCount)

\* ------------------------------------------------------------ poses

\* One keypoint of a pose.
Keypoint(name, x, y, sc) == [name |-> name, x |-> x, y |-> y, score |-> sc]

JointNames == <<"left_shoulder", "right_shoulder", "left_elbow",
                "right_elbow", "left_wrist", "right_wrist">>

\* Arm shapes: the elbow's offset from the shoulder and the wrist's from
\* the elbow (mirrored on the right arm).
\*   straight: elbow angle 180, wrists under the shoulders (stack 0)
\*   wide:     elbow angle 90, wrists 100 px out (stack 100)
ArmStraight == [ex |-> 0, ey |-> 60, wx |-> 0, wy |-> 60]
ArmWide == [ex |-> 100, ey |-> 0, wx |-> 0, wy |-> 60]

\* The pose with the shoulders at heights ly and ry, both arms in shape arm,
\* and the confidences conf (joint name -> hundredths); a joint in out is
\* missing from the keypoint list.
MkPose(ly, ry, arm, conf, out) ==
  LET all == <<
        Keypoint("left_shoulder", 400, ly, conf["left_shoulder"]),
        Keypoint("right_shoulder", 200, ry, conf["right_shoulder"]),
        Keypoint("left_elbow", 400 + arm.ex, ly + arm.ey, conf["left_elbow"]),
        Keypoint("right_elbow", 200 - arm.ex, ry + arm.ey, conf["right_elbow"]),
        Keypoint("left_wrist", 400 + arm.ex + arm.wx, ly + arm.ey + arm.wy,
                 conf["left_wrist"]),
        Keypoint("right_wrist", 200 - arm.ex - arm.wx, ry + arm.ey + arm.wy,
                 conf["right_wrist"]) >>
      Kept(kp) == kp.name \notin out
  IN  [keypoints |-> SelectSeq(all, Kept)]

JointSet == { JointNames[i] : i \in 1..Len(JointNames) }

\* every joint confidently seen
Confident == [n \in JointSet |-> 90]

\* joint n seen with confidence exactly 0.4 (not above the threshold)
Doubtful(n) == [Confident EXCEPT ![n] = ScoreThreshold]

\* poses with all six joints available: level at the top (shoulders at 0)
\* and at the bottom (80) with wide arms, and tilted (left 0, right 80) with
\* straight arms
FullPoses ==
  { MkPose(0, 0, ArmWide, Confident, {}),
    MkPose(80, 80, ArmWide, Confident, {}),
    MkPose(0, 80, ArmStraight, Confident, {}) }

\* poses with one joint unavailable: at the threshold, or left out
PartialPoses ==
  { MkPose(0, 0, ArmWide, Doubtful(n), {}) :
      n \in {"left_shoulder", "right_elbow", "left_wrist"} }
  \cup
  { MkPose(80, 80, ArmWide, Doubtful(n), {}) :
      n \in {"right_shoulder", "left_elbow", "right_wrist"} }
  \cup
  { MkPose(80, 80, ArmStraight, Confident, {n}) :
      n \in {"right_shoulder", "left_elbow"} }

Poses == FullPoses \cup PartialPoses

\* poses whose keypoints array has a slot with no keypoint in it, after the
\* two shoulders (level at 0 or at 80) or before them
BrokenPoses ==
  LET shoulders(y) ==
        MkPose(y, y, ArmStraight, Confident,
               {"left_elbow", "right_elbow",
                "left_wrist", "right_wrist"}).keypoints
  IN  { [keypoints |-> shoulders(y) \o <<slot>>] :
          y \in {0, 80}, slot \in {Null, Hole} }
      \cup { [keypoints |-> <<Hole>> \o shoulders(80)] }

\* how far Date.now() moves between two reads
TimeSteps == {0, FeedbackWindow - 1, FeedbackWindow}

\* ------------------------------------------------------------ the session

NoFed == [shape |-> "none"]
NoSeen == [frames |-> 0]
NoArgs == <<>>

Init ==
  /\ repStateRef = [phase |-> "top", repCount |-> 0]
  /\ formStatsRef = [angles |-> <<>>, stacks |-> <<>>, tilts |-> <<>>,
                     lastFeedbackTime |-> 0]
  /\ repCount = 0
  /\ feedback = MsgStart
  /\ score = InitialScore
  /\ detectorRef = "null"
  /\ pc = "created"
  /\ clock = 0
  /\ inFlight = 0
  /\ queued = 0
  /\ fed = NoFed
  /\ seen = NoSeen
  /\ strokes = {}
  /\ args = NoArgs
  /\ videoRef = "null"
  /\ canvasRef = "null"
  /\ rerender = "none"

\* The caps that keep the session finite: the frames explored are those
\* that leave the rep count, the buffer and the clock within them.  The
\* code has no such limit; the caps belong to the specification, not to
\* the frame.
WithinBounds ==
  /\ repStateRef'.repCount <= MaxReps
  /\ Len(formStatsRef'.angles) <= MaxSamples
  /\ clock' <= MaxWindows * FeedbackWindow

\* the component is mounted: React attaches the <video> and <canvas>
\* elements to their refs and runs the effect, which calls init()
Mount ==
  /\ pc = "created"
  /\ pc' = "init"
  /\ videoRef' = "video"
  /\ canvasRef' = "canvas"
  /\ UNCHANGED <<progVars, detectorRef, clock, inFlight, queued, fed, seen,
                 strokes, args, rerender>>

\* the component is unmounted: React sets both refs to null and renders it
\* no more; the effect has no cleanup, so init() and the frame loop go on
Unmount ==
  /\ videoRef # "null"
  /\ videoRef' = "null"
  /\ canvasRef' = "null"
  /\ rerender' = "none"
  /\ UNCHANGED <<progVars, detectorRef, pc, clock, inFlight, queued, fed,
                 seen, strokes, args>>

\* the canvas after drawSkeleton(pose): untouched without a canvas element,
\* else cleared and drawn on
drawSkeleton(pose) ==
  strokes' = IF canvasRef = "null" THEN strokes ELSE Drawn(pose).segments

\* drawSkeleton(pose) throws: it has a canvas to draw on, and reading the
\* keypoints throws
drawSkeletonThrows(pose) ==
  /\ canvasRef # "null"
  /\ Gaps(pose.keypoints) # {}
  /\ Drawn(pose).threw

\* The try block of frame() throws, and what it has done by then.
\* estimatePoses rejects: nothing.  Or it resolves with a pose whose
\* keypoints cannot all be read, and drawSkeleton throws, with the canvas
\* cleared and the segments of the pairs before the throw stroked; or
\* drawSkeleton returns and processPose throws, at a shoulder with nothing
\* changed, or later with the rep machine run and the count published.
TryThrows ==
  \/ UNCHANGED <<progVars, args, clock, strokes, rerender>>
  \/ \E pose \in BrokenPoses :
       /\ drawSkeleton(pose)
       /\ IF drawSkeletonThrows(pose)
            THEN UNCHANGED <<progVars, args, clock, rerender>>
            ELSE /\ processPoseThrows(pose)
                 /\ processPose(pose, clock)
                 /\ repStateRef'.repCount <= MaxReps

\* init(), setupCamera: the stream is there and the video's metadata has
\* loaded, with the component still mounted (videoRef.current and
\* canvasRef.current are read); onloadedmetadata calls setVideoSize with a
\* new object and sets the canvas's width and height, which blanks it
CameraReady ==
  /\ pc = "init"
  /\ videoRef # "null"
  /\ pc' = "camera"
  /\ rerender' = "size"
  /\ strokes' = {}
  /\ UNCHANGED <<progVars, detectorRef, clock, inFlight, queued, fed, seen,
                 args, videoRef, canvasRef>>

\* init(): backend and detector are ready; startPoseLoop() is called
InitOk ==
  /\ pc = "camera"
  /\ detectorRef' = "detector"
  /\ pc' = "start"
  /\ queued' = queued + 1
  /\ UNCHANGED <<progVars, clock, inFlight, fed, seen,
                 strokes, args, videoRef, canvasRef, rerender>>

\* init(): setupCamera, the backend or loadMoveNet rejects; no loop starts
InitFails ==
  /\ pc \in {"init", "camera"}
  /\ pc' = "failed"
  /\ UNCHANGED <<progVars, detectorRef, clock, inFlight, queued, fed, seen,
                 strokes, args, videoRef, canvasRef, rerender>>

\* React renders PoseCamera again: the function body runs, and the argument
\* of useRef at lines 17-22 reads Date.now() for an object that useRef
\* drops.  The render that follows setVideoSize hands the canvas its width
\* and height; if they differ from those of the render before, React sets
\* the attributes, which blanks the canvas.
Render(now) ==
  /\ rerender # "none"
  /\ rerender' = "none"
  /\ clock' = now
  /\ clock' <= MaxWindows * FeedbackWindow
  /\ strokes' \in IF rerender = "size" /\ canvasRef # "null"
                    THEN {strokes, {}}
                    ELSE {strokes}
  /\ UNCHANGED <<progVars, detectorRef, pc, inFlight, queued, fed, seen,
                 args, videoRef, canvasRef>>

\* FrameStart with estimatePoses called but not awaited: the call is left in
\* flight and frame() goes straight on to requestAnimationFrame(frame)
FrameStart_NotAwaited ==
  /\ pc \in {"start", "scheduled"}
  /\ inFlight < 3
  /\ IF detectorRef # "null" /\ videoRef # "null"
       THEN /\ pc' = "scheduled"
            /\ inFlight' = inFlight + 1
            /\ UNCHANGED queued
       ELSE /\ pc' = "scheduled"
            /\ UNCHANGED <<inFlight, queued>>
  /\ UNCHANGED <<progVars, detectorRef, clock, fed, seen,
                 strokes, args, videoRef, canvasRef, rerender>>

\* frame() is entered (first call, or the animation-frame callback)
FrameStart ==
  /\ pc \in {"start", "scheduled"}
  /\ IF detectorRef # "null" /\ videoRef # "null"
       THEN /\ pc' = "estimating"
            /\ inFlight' = inFlight + 1
            /\ queued' = queued - 1
       ELSE /\ pc' = "scheduled"
            /\ UNCHANGED <<inFlight, queued>>
  /\ UNCHANGED <<progVars, detectorRef, clock, fed, seen,
                 strokes, args, videoRef, canvasRef, rerender>>

\* estimatePoses resolves with no pose; requestAnimationFrame(frame)
EstimateEmpty ==
  /\ pc = "estimating"
  /\ pc' = "scheduled"
  /\ inFlight' = inFlight - 1
  /\ queued' = queued + 1
  /\ UNCHANGED <<progVars, detectorRef, clock, fed, seen,
                 strokes, args, videoRef, canvasRef, rerender>>

\* FrameThrows with no catch: the exception leaves frame() before
\* requestAnimationFrame is reached
FrameThrows_Uncaught ==
  /\ pc = "estimating"
  /\ pc' = "crashed"
  /\ inFlight' = inFlight - 1
  /\ TryThrows
  /\ UNCHANGED <<detectorRef, queued, fed, seen, videoRef, canvasRef>>

\* estimatePoses rejects, or drawSkeleton or processPose throws: caught,
\* logged; requestAnimationFrame(frame)
FrameThrows ==
  /\ pc = "estimating"
  /\ pc' = "scheduled"
  /\ inFlight' = inFlight - 1
  /\ queued' = queued + 1
  /\ TryThrows
  /\ UNCHANGED <<detectorRef, fed, seen, videoRef, canvasRef>>

\* estimatePoses resolves with a pose and neither drawSkeleton nor
\* processPose throws; requestAnimationFrame(frame)
FrameProcessed(pose, now) ==
  /\ pc = "estimating"
  /\ ~drawSkeletonThrows(pose)
  /\ ~processPoseThrows(pose)
  /\ pc' = "scheduled"
  /\ inFlight' = inFlight - 1
  /\ queued' = queued + 1
  /\ drawSkeleton(pose)
  /\ processPose(pose, now)
  /\ UNCHANGED <<detectorRef, fed, seen, videoRef, canvasRef>>

Next ==
  \/ Mount
  \/ Unmount
  \/ CameraReady
  \/ \E d \in TimeSteps : Render(clock + d)
  \/ InitOk
  \/ InitFails
  \/ FrameStart
  \/ EstimateEmpty
  \/ FrameThrows
  \/ \E pose \in Poses, d \in TimeSteps :
       FrameProcessed(pose, clock + d) /\ WithinBounds

Spec == Init /\ [][Next]_vars

\* the pending estimatePoses promise settles, one way or another
EstimateSettles ==
  \/ EstimateEmpty
  \/ FrameThrows
  \/ \E pose \in Poses, d \in TimeSteps :
       FrameProcessed(pose, clock + d) /\ WithinBounds

\* The browser runs every animation-frame callback it was asked for, and the
\* estimator settles every promise it returned. EstimateSettles is enabled
\* exactly when pc = "estimating" and every such step leaves that place, so
\* weak fairness of EstimateSettles is: no estimate stays pending for ever.
FairSpec == Spec /\ WF_vars(FrameStart) /\ []<>(pc # "estimating")

\* ------------------------------------------------------------ the
\* session over unbounded time. processPose uses the clock only in
\* now - lastFeedbackTime >= 3000 and a render drops what it reads, so the
\* session is the same under any shift of the clock's origin and for any
\* two readings past the end of the window: times are kept from the last
\* flush and stop at the end of the window.

\* the reading now, held at the end of the window that began at the last
\* flush
WithinWindow(now) ==
  IF now - formStatsRef.lastFeedbackTime > FeedbackWindow
    THEN formStatsRef.lastFeedbackTime + FeedbackWindow
    ELSE now

\* what Date.now() may return next: the readings d ms after the last one
LiveNows == { WithinWindow(clock + d) : d \in TimeSteps }

\* ... and those later than the last one (d > 0)
LaterNows == { WithinWindow(clock + d) : d \in TimeSteps \ {0} }

\* The caps of the session over unbounded time: on the rep count, and on
\* the samples pushed while the window is still open, of which the code
\* takes any number.  A frame processed once the window is over is never
\* held back, whatever the buffer holds: there the buffer is emptied by
\* the flush or not at all.
LiveBounds(now) ==
  /\ repStateRef'.repCount <= MaxReps
  /\ now - formStatsRef.lastFeedbackTime < FeedbackWindow
       => Len(formStatsRef'.angles) <= MaxSamples

\* a frame is processed, Date.now() returning now if the frame reads it
LiveFrame(pose, now) ==
  /\ formStatsRef.lastFeedbackTime = 0
  /\ FrameProcessed(pose, now)
  /\ LiveBounds(now)

\* the component is rendered again, Date.now() returning now
LiveRender(now) ==
  /\ formStatsRef.lastFeedbackTime = 0
  /\ Render(now)

\* the clock's origin is moved to the last flush
Rebase ==
  /\ formStatsRef.lastFeedbackTime > 0
  /\ clock' = clock - formStatsRef.lastFeedbackTime
  /\ formStatsRef' = [formStatsRef EXCEPT !.lastFeedbackTime = 0]
  /\ UNCHANGED <<repStateRef, repCount, feedback, score, detectorRef, pc,
                 inFlight, queued, fed, seen,
                 strokes, args, videoRef, canvasRef, rerender>>

LiveNext ==
  \/ Mount
  \/ Unmount
  \/ CameraReady
  \/ \E now \in LiveNows : LiveRender(now)
  \/ InitOk
  \/ InitFails
  \/ FrameStart
  \/ EstimateEmpty
  \/ FrameThrows
  \/ \E pose \in Poses, now \in LiveNows : LiveFrame(pose, now)
  \/ Rebase

\* The browser runs every animation-frame callback it was asked for.
SpecLive ==
  /\ Init
  /\ [][LiveNext]_vars
  /\ WF_vars(FrameStart)
  /\ WF_vars(Rebase)

\* ------------------------------------------------------------ the phase
\* machine fed directly: processPose on frames that show the shoulders
\* only, with the shape of the sequence fed so far recorded in fed

\* shoulder heights fed: the thresholds 52, 40 and 70 and their neighbours
RepYs == {0, 12, 29, 30, 31, 52, 53, 70, 71, 100}

\* a frame with both shoulders at height y and an elbow not confidently seen
RepPose(y) == MkPose(y, y, ArmStraight, Doubtful("left_elbow"), {})

\* The shape of the fed sequence after y: "rising" while it has never gone
\* down, "falling" once it went down and never up again, "other" after that.
\* peak is the last height of the rising part.
FedNext(f, y) ==
  IF f.shape = "none"
    THEN [shape |-> "rising", first |-> y, peak |-> y, last |-> y,
          min |-> y, max |-> y]
    ELSE [shape |-> CASE f.shape = "rising" /\ RatLe(f.last, y) -> "rising"
                      [] f.shape = "rising" /\ RatLt(y, f.last) -> "falling"
                      [] f.shape = "falling" /\ RatLe(y, f.last) -> "falling"
                      [] OTHER -> "other",
          first |-> f.first,
          peak |-> IF f.shape = "rising" /\ RatLe(f.last, y) THEN y ELSE f.peak,
          last |-> y,
          min |-> RatMin(f.min, y),
          max |-> RatMax(f.max, y)]

\* What the heights fed looked like, told from the phase and the count
\* before and after each frame alone (never from topY or bottomY):
\*   low     the lowest height fed since the phase last became top (the
\*           frame that counted the last rep, or the first frame, included)
\*   lowTop  the same, over the frames met in phase top only
\*   high    the highest height fed since the phase last became bottom (the
\*           frame of the descent included); in phase top, the last height
\*   down    a frame has moved the phase from top to bottom since the last
\*           counted rep
\*   counted the last frame counted a rep
SeenNext(h, y, before, after) ==
  LET first == h.frames = 0
      becameTop == after.repCount > before.repCount
      becameBottom == before.phase = "top" /\ after.phase = "bottom"
  IN  [frames |-> 1,
       low |-> IF first \/ becameTop THEN y ELSE RatMin(h.low, y),
       lowTop |-> IF first \/ becameTop THEN y
                  ELSE IF before.phase = "top" THEN RatMin(h.lowTop, y)
                  ELSE h.lowTop,
       high |-> IF after.phase = "top" \/ becameBottom THEN y
                ELSE RatMax(h.high, y),
       down |-> IF becameBottom THEN TRUE
                ELSE IF first \/ becameTop THEN FALSE
                ELSE h.down,
       counted |-> becameTop]

Feed(y) ==
  /\ processPose(RepPose(y), clock)
  /\ repStateRef'.repCount <= MaxReps
  /\ fed' = FedNext(fed, Q(y))
  /\ seen' = SeenNext(seen, Q(y), repStateRef, repStateRef')
  /\ UNCHANGED <<detectorRef, pc, clock, inFlight, queued, strokes,
                 videoRef, canvasRef>>

NextRep == \E y \in RepYs : Feed(y)

SpecRep == Init /\ [][NextRep]_vars

\* ------------------------------------------------------------ the
\* interpreter alone: a triple of window averages is drawn, interpretForm
\* is applied to it and its result is published as a flush publishes it

\* window averages around the rule thresholds 75, 150, 90 and 40
AngleInputs == { Q(0), Q(60), Q(74), Rat(149, 2), Q(75), Q(76), Q(80),
                 Q(149), Q(150), Rat(301, 2), Q(151), Q(160), Q(180) }
StackInputs == { Q(0), Q(50), Q(90), Rat(181, 2), Q(91), Q(100) }
TiltInputs == { Q(0), Q(10), Q(40), Rat(81, 2), Q(41), Q(50) }

InitInterp ==
  /\ repStateRef = [phase |-> "top", repCount |-> 0]
  /\ formStatsRef = [angles |-> <<>>, stacks |-> <<>>, tilts |-> <<>>,
                     lastFeedbackTime |-> 0]
  /\ repCount = 0
  /\ feedback = MsgStart
  /\ score = InitialScore
  /\ detectorRef = "null"
  /\ pc = "interpret"
  /\ clock = 0
  /\ inFlight = 0
  /\ queued = 0
  /\ fed = NoFed
  /\ seen = NoSeen
  /\ strokes = {}
  /\ args \in AngleInputs \X StackInputs \X TiltInputs
  /\ videoRef = "null"
  /\ canvasRef = "null"
  /\ rerender = "none"

\* const form = interpretForm(...); setFeedback(form.message);
\* setScore(form.score)
Interpret ==
  /\ pc = "interpret"
  /\ LET form == interpretForm(args[1], args[2], args[3])
     IN  /\ feedback' = form.message
         /\ score' = form.score
  /\ pc' = "interpreted"
  /\ UNCHANGED <<repStateRef, formStatsRef, repCount, detectorRef, clock,
                 inFlight, queued, fed, seen,
                 strokes, args, videoRef, canvasRef, rerender>>

SpecInterp == InitInterp /\ [][Interpret]_vars

\* the session and the interpreter runs side by side: every score that is
\* ever shown, by a session's flushes or for a drawn triple
SpecScore == (Init \/ InitInterp) /\ [][Next \/ Interpret]_vars

\* ------------------------------------------------------------ the
\* variant of the component in src/unnamed/part_001: the same phase
\* machine, no form statistics; a counted rep sets the feedback and every
\* frame that shows the shoulders sets the score to 100

MsgStrongRep == "Strong rep! Keep that tempo steady."

\* processPose(pose) of part_001
processPose_001(pose) ==
  LET leftShoulder == getPoint(pose, "left_shoulder")
      rightShoulder == getPoint(pose, "right_shoulder")
  IN  IF \/ leftShoulder \in {Thrown, Undefined}
         \/ rightShoulder \in {Thrown, Undefined}
        THEN UNCHANGED <<progVars, args, rerender>>
        ELSE
          LET shoulderY == ShoulderY(leftShoulder, rightShoulder)
          IN  /\ repStateRef' = RepUpdate(repStateRef, shoulderY)
              /\ IF RepCounted(repStateRef, shoulderY)
                   THEN /\ repCount' = repStateRef'.repCount
                        /\ feedback' = MsgStrongRep
                   ELSE UNCHANGED <<repCount, feedback>>
              /\ score' = 100
              /\ UNCHANGED <<formStatsRef, args>>
              /\ rerender' \in
                   Scheduled(TRUE, <<repCount', feedback', 100>>
                                   # <<repCount, feedback, score>>)

\* the part_001 component after construction: as part_000's, without
\* formStatsRef
Init_001 ==
  /\ repStateRef = [phase |-> "top", repCount |-> 0]
  /\ formStatsRef = Undefined
  /\ repCount = 0
  /\ feedback = MsgStart
  /\ score = InitialScore
  /\ detectorRef = "null"
  /\ pc = "created"
  /\ clock = 0
  /\ inFlight = 0
  /\ queued = 0
  /\ fed = NoFed
  /\ seen = NoSeen
  /\ strokes = {}
  /\ args = NoArgs
  /\ videoRef = "null"
  /\ canvasRef = "null"
  /\ rerender = "none"

\* part_001's processPose(pose) throws: at one of the two getPoint calls
processPoseThrows_001(pose) ==
  /\ Gaps(pose.keypoints) # {}
  /\ Thrown \in {getPoint(pose, "left_shoulder"),
                 getPoint(pose, "right_shoulder")}

\* part_001's try block throws: as part_000's, but its processPose reads no
\* joint after the shoulders, and throws only before it has changed
\* anything (sendToGemini is not reached)
FrameThrows_001 ==
  /\ pc = "estimating"
  /\ pc' = "scheduled"
  /\ inFlight' = inFlight - 1
  /\ queued' = queued + 1
  /\ \/ UNCHANGED strokes
     \/ \E pose \in BrokenPoses :
          /\ drawSkeleton(pose)
          /\ IF drawSkeletonThrows(pose) THEN TRUE
             ELSE processPoseThrows_001(pose)
  /\ UNCHANGED <<progVars, args, clock, detectorRef, fed, seen,
                 videoRef, canvasRef, rerender>>

\* part_001's sendToGemini(keypoints), with Date.now() returning now: it
\* reads the clock on every call; lastGeminiCall and the request it may
\* send are not kept here
sendToGemini(now) == clock' = now

\* part_001's estimatePoses resolves with a pose and neither drawSkeleton
\* nor processPose throws; sendToGemini; requestAnimationFrame(frame)
Frame_001(pose, now) ==
  /\ pc = "estimating"
  /\ ~drawSkeletonThrows(pose)
  /\ ~processPoseThrows_001(pose)
  /\ pc' = "scheduled"
  /\ inFlight' = inFlight - 1
  /\ queued' = queued + 1
  /\ drawSkeleton(pose)
  /\ processPose_001(pose)
  /\ sendToGemini(now)
  /\ repStateRef'.repCount <= MaxReps
  /\ clock' <= MaxWindows * FeedbackWindow
  /\ UNCHANGED <<detectorRef, fed, seen, videoRef, canvasRef>>

\* React renders part_001's PoseCamera again: its body reads no clock
\* (it has no formStatsRef)
Render_001 ==
  /\ rerender # "none"
  /\ rerender' = "none"
  /\ strokes' \in IF rerender = "size" /\ canvasRef # "null"
                    THEN {strokes, {}}
                    ELSE {strokes}
  /\ UNCHANGED <<progVars, detectorRef, pc, clock, inFlight, queued, fed,
                 seen, args, videoRef, canvasRef>>

\* part_001's component: its init() and frame loop are part_000's, line
\* for line
Next_001 ==
  /\ formStatsRef = Undefined
  /\ \/ Mount
     \/ Unmount
     \/ CameraReady
     \/ Render_001
     \/ InitOk
     \/ InitFails
     \/ FrameStart
     \/ EstimateEmpty
     \/ FrameThrows_001
     \/ \E pose \in Poses, d \in TimeSteps : Frame_001(pose, clock + d)

\* part_000's component
Next_000 == formStatsRef # Undefined /\ Next

\* either component: part_000's session, or part_001's
SpecFeedback == (Init \/ Init_001) /\ [][Next_000 \/ Next_001]_vars

\* ------------------------------------------------------------ claims

\* the fed sequence rose by more than 52 and then fell by more than 40
RoseThenFell ==
  /\ fed.shape = "falling"
  /\ RatGt(RatSub(fed.peak, fed.first), Q(52))
  /\ RatGt(RatSub(fed.peak, fed.last), Q(40))

\* C1 as stated, reading "total excursion" as the largest minus the smallest
\* height fed: a sequence that rises by more than 52, falls by more than 40
\* and spans more than 70 counts exactly one rep and ends in phase top.
\* Refuted by 30, 100, 0: the rise is 70, so the range gate never opens.
C1_AsStated ==
  (RoseThenFell /\ RatGt(RatSub(fed.max, fed.min), Q(70)))
    => (repStateRef.repCount = 1 /\ repStateRef.phase = "top")

\* C1 (amended): from the initial state, a sequence that rises monotonically
\* by more than 70 from its first height to its peak (so by more than 52)
\* and then falls monotonically by more than 40 counts exactly one rep and
\* ends in phase top.
C1_OneRep ==
  (RoseThenFell /\ RatGt(RatSub(fed.peak, fed.first), Q(70)))
    => (repStateRef.repCount = 1 /\ repStateRef.phase = "top")

\* a rise of 71 followed by a fall of 41 has been fed and counted
C1_Witness ==
  /\ RoseThenFell
  /\ RatSub(fed.peak, fed.first) = Q(71)
  /\ RatSub(fed.peak, fed.last) = Q(41)
  /\ repStateRef.repCount = 1

\* C2: while the heights fed span at most 70 (largest minus smallest), no
\* rep is counted.
C2_ShallowNeverCounts ==
  (fed.shape # "none" /\ RatLe(RatSub(fed.max, fed.min), Q(70)))
    => repStateRef.repCount = 0

\* an oscillation spanning exactly 70 that has come back up by more than 40
\* from the bottom and gone down again, with no rep counted
C2_Witness ==
  /\ fed.shape = "other"
  /\ RatSub(fed.max, fed.min) = Q(70)
  /\ repStateRef.phase = "bottom"
  /\ RatGt(RatSub(repStateRef.bottomY, fed.last), Q(40))
  /\ repStateRef.repCount = 0

\* C3: repCount is a natural number; every step leaves it unchanged or adds
\* exactly 1, and it adds 1 exactly on the steps that take the phase from
\* bottom to top.
C3_CountsBottomToTop ==
  /\ [](repStateRef.repCount \in Nat)
  /\ [][ /\ repStateRef'.repCount \in
              {repStateRef.repCount, repStateRef.repCount + 1}
         /\ (repStateRef'.repCount = repStateRef.repCount + 1)
              <=> (repStateRef.phase = "bottom" /\ repStateRef'.phase = "top")
       ]_vars

\* two reps have been counted and the machine is back in phase top
C3_Witness ==
  /\ repStateRef.repCount = 2
  /\ repStateRef.phase = "top"

\* the score the rules give a triple: 100 less the penalties, kept in 60..100
RuleScore(angle, stack, tilt) ==
  LET elbow == IF RatLt(angle, Q(75)) THEN 20
               ELSE IF RatGt(angle, Q(150)) THEN 15 ELSE 0
      wrist == IF RatGt(stack, Q(90)) THEN 20 ELSE 0
      level == IF RatGt(tilt, Q(40)) THEN 15 ELSE 0
      raw == 100 - elbow - wrist - level
  IN  IF raw < 60 THEN 60 ELSE IF raw > 100 THEN 100 ELSE raw

\* the message the priority order gives a triple
RuleMessage(angle, stack, tilt) ==
  IF RatGt(tilt, Q(40)) THEN MsgTilt
  ELSE IF RatGt(stack, Q(90)) THEN MsgStack
  ELSE IF RatLt(angle, Q(75)) THEN MsgTooDeep
  ELSE IF RatGt(angle, Q(150)) THEN MsgLowerMore
  ELSE MsgNice

\* C4: the score interpretForm returns, and so the score shown, is within
\* 60..100 for every triple, the initial 100 included.
C4_ScoreInRange == score \in 60..100

\* a triple with all three penalties (raw score 50) was interpreted and the
\* score shown is the lower clamp
C4_Witness ==
  /\ pc = "interpreted"
  /\ RatGt(args[1], Q(150)) /\ RatGt(args[2], Q(90)) /\ RatGt(args[3], Q(40))
  /\ score = 60

\* C5: interpretForm's score is 100 less 20 (angle < 75) or 15 (angle > 150),
\* less 20 (stack > 90), less 15 (tilt > 40), all strict, clamped to 60..100;
\* (80,50,10) gives 100, (60,50,10) gives 80, (80,100,10) gives 80 and
\* (160,100,50) gives 60.
C5_ScoreFormula ==
  pc = "interpreted" =>
    /\ score = RuleScore(args[1], args[2], args[3])
    /\ args = <<Q(80), Q(50), Q(10)>> => score = 100
    /\ args = <<Q(60), Q(50), Q(10)>> => score = 80
    /\ args = <<Q(80), Q(100), Q(10)>> => score = 80
    /\ args = <<Q(160), Q(100), Q(50)>> => score = 60

\* an angle of exactly 75 with no other fault was interpreted: no penalty
C5_Witness ==
  /\ pc = "interpreted"
  /\ args = <<Q(75), Q(90), Q(40)>>
  /\ score = 100

\* C6: interpretForm returns one message by fixed priority: level shoulders
\* when tilt > 40, else stack wrists when stack > 90, else the elbow-range
\* message; never the initial default "Solid pushup" message.
C6_MessagePriority ==
  pc = "interpreted" =>
    /\ feedback = RuleMessage(args[1], args[2], args[3])
    /\ feedback \in {MsgTilt, MsgStack, MsgTooDeep, MsgLowerMore, MsgNice}
    /\ feedback # MsgSolid

\* a too-deep, unstacked and tilted window was interpreted: the tilt message
C6_Witness ==
  /\ pc = "interpreted"
  /\ RatLt(args[1], Q(75)) /\ RatGt(args[2], Q(90)) /\ RatGt(args[3], Q(40))
  /\ feedback = MsgTilt

\* joint name is not available in pose: no keypoint of that name has a
\* confidence above 0.4
Unavailable(pose, name) ==
  \A i \in 1..Len(pose.keypoints) :
    pose.keypoints[i].name = name => pose.keypoints[i].score <= 40

AnyUnavailable(pose) == \E name \in JointSet : Unavailable(pose, name)

\* s extended by exactly one entry
OneAppended(s, t) == Len(t) = Len(s) + 1 /\ SubSeq(t, 1, Len(s)) = s

\* the start of the form window; a component that keeps no form
\* statistics never starts one
WindowStart ==
  IF formStatsRef = Undefined THEN 0 ELSE formStatsRef.lastFeedbackTime

\* the step flushed: the window start moved
FlushStep == WindowStart' # WindowStart

\* the step shows some effect of a flush: the window start moved, a
\* sequence lost entries, or the feedback or score shown changed
FlushEffect ==
  \/ FlushStep
  \/ Len(formStatsRef'.angles) < Len(formStatsRef.angles)
  \/ Len(formStatsRef'.stacks) < Len(formStatsRef.stacks)
  \/ Len(formStatsRef'.tilts) < Len(formStatsRef.tilts)
  \/ feedback' # feedback
  \/ score' # score

\* C7: the three accumulator sequences always have equal length; a frame
\* with any of the six joints unavailable appends to none of them and a
\* frame with all six appends exactly one entry to each (seen on the frames
\* that do not flush; a flushing frame leaves all three empty).
C7_AccumulateTogether ==
  /\ [](/\ Len(formStatsRef.angles) = Len(formStatsRef.stacks)
        /\ Len(formStatsRef.stacks) = Len(formStatsRef.tilts))
  /\ [][ \A pose \in Poses, d \in TimeSteps :
           \/ ~(pc = "estimating" /\ clock' = clock + d)
           \/ IF FlushStep
                THEN /\ formStatsRef'.angles = <<>>
                     /\ formStatsRef'.stacks = <<>>
                     /\ formStatsRef'.tilts = <<>>
                     /\ AnyUnavailable(pose) => Len(formStatsRef.angles) > 0
              ELSE IF AnyUnavailable(pose)
                THEN /\ formStatsRef'.angles = formStatsRef.angles
                     /\ formStatsRef'.stacks = formStatsRef.stacks
                     /\ formStatsRef'.tilts = formStatsRef.tilts
              ELSE /\ OneAppended(formStatsRef.angles, formStatsRef'.angles)
                   /\ OneAppended(formStatsRef.stacks, formStatsRef'.stacks)
                   /\ OneAppended(formStatsRef.tilts, formStatsRef'.tilts)
           \/ ~FrameProcessed(pose, clock + d)
       ]_vars

\* two samples are held in each sequence
C7_Witness ==
  /\ Len(formStatsRef.angles) = 2
  /\ Len(formStatsRef.stacks) = 2
  /\ Len(formStatsRef.tilts) = 2

\* C8: a frame flushes only if at least 3000 ms have passed since
\* lastFeedbackTime and the sequences are non-empty at the check (they held
\* a sample already, or the frame added one); when the window has passed
\* but the sequences are empty at the check, the frame changes neither the
\* buffer (sequences, lastFeedbackTime) nor the feedback and score shown.
C8_FlushOnlyWhenDue ==
  [][ \A pose \in Poses, d \in TimeSteps :
        \/ ~(pc = "estimating" /\ clock' = clock + d)
        \/ /\ FlushEffect =>
                /\ clock + d - formStatsRef.lastFeedbackTime >= 3000
                /\ \/ ~AnyUnavailable(pose)
                   \/ /\ Len(formStatsRef.angles) > 0
                      /\ Len(formStatsRef.stacks) > 0
                      /\ Len(formStatsRef.tilts) > 0
           /\ ( /\ clock + d - formStatsRef.lastFeedbackTime >= 3000
                /\ Len(formStatsRef.angles) = 0
                /\ Len(formStatsRef.stacks) = 0
                /\ Len(formStatsRef.tilts) = 0
                /\ AnyUnavailable(pose) )
              => UNCHANGED <<formStatsRef, feedback, score>>
        \/ ~FrameProcessed(pose, clock + d)
    ]_vars

\* frames showing the shoulders have been processed, a whole window has
\* passed since the buffer was created, and the buffer is still empty and
\* unflushed
C8_Witness ==
  /\ repStateRef.phase = "bottom"
  /\ clock - formStatsRef.lastFeedbackTime >= 3000
  /\ formStatsRef.lastFeedbackTime = 0
  /\ formStatsRef.angles = <<>>
  /\ feedback = MsgStart

\* C9: a frame in which either shoulder is unavailable (absent, or with a
\* confidence not above 0.4) changes nothing: phase, topY, bottomY, repCount,
\* the three sequences, lastFeedbackTime and the rep count, feedback and
\* score shown.
C9_SkipWithoutShoulders ==
  [][ \/ UNCHANGED <<repStateRef, formStatsRef, repCount, feedback, score>>
      \/ \A pose \in Poses, d \in TimeSteps :
           ~( /\ \/ Unavailable(pose, "left_shoulder")
                 \/ Unavailable(pose, "right_shoulder")
              /\ FrameProcessed(pose, clock + d) )
    ]_vars

\* the session holds everything such a frame could disturb (a counted rep,
\* the phase machine at the bottom of the next one, samples waiting in the
\* buffer, a flush behind it), and the frame loop has run on
C9_Witness ==
  /\ pc = "scheduled"
  /\ repCount = 1
  /\ repStateRef.phase = "bottom"
  /\ Len(formStatsRef.angles) > 0
  /\ formStatsRef.lastFeedbackTime > 0

\* the frame loop has been started
LoopRunning == pc \in {"start", "estimating", "scheduled"}

\* C10: every iteration of the frame loop ends by scheduling the next one,
\* whether the estimator returned no pose, the frame threw or the pose was
\* processed; nothing leaves frame() any other way; once started the loop
\* always has either its estimate pending or its next iteration due, and
\* the iteration due is entered (and estimates, as long as the video
\* element is there) again and again.
C10_AlwaysReschedules ==
  /\ [][pc = "estimating" /\ pc' # pc => pc' = "scheduled"]_vars
  /\ [][LoopRunning => LoopRunning']_vars
  /\ [](LoopRunning => inFlight + queued = 1)
  /\ (pc = "estimating") ~> (pc = "scheduled")
  /\ (pc = "scheduled") ~> (pc = "estimating" \/ videoRef = "null")

\* a frame was processed (the clock moved and a rep was counted) and the
\* next iteration is scheduled
C10_Witness ==
  /\ pc = "scheduled"
  /\ clock > 0
  /\ repStateRef.repCount > 0

\* C11: at most one estimatePoses call is in flight and at most one call of
\* frame() is due, never both at once; the next iteration is requested only
\* by a step that leaves no call in flight; and repStateRef and formStatsRef
\* change only in the step that settles the one call in flight, with no
\* other iteration due.
C11_NoFrameOverlap ==
  /\ [](inFlight \in {0, 1} /\ queued \in {0, 1} /\ inFlight + queued <= 1)
  /\ [][queued' > queued => inFlight' = 0]_vars
  /\ [][ <<repStateRef, formStatsRef>>' # <<repStateRef, formStatsRef>>
           => (inFlight = 1 /\ inFlight' = 0 /\ queued = 0) ]_vars

\* an iteration has processed a pose (the phase machine went down) and the
\* next iteration's estimatePoses call is in flight
C11_Witness ==
  /\ pc = "estimating"
  /\ inFlight = 1
  /\ queued = 0
  /\ repStateRef.phase = "bottom"

\* C12: the rep count shown always equals repStateRef.current.repCount, and
\* every frame that changes the internal count shows the new count in the
\* same step.
C12_CountPublished ==
  /\ [](repCount = repStateRef.repCount)
  /\ [][ \A pose \in Poses, d \in TimeSteps :
           \/ /\ repCount' = repStateRef'.repCount
              /\ (repStateRef'.repCount # repStateRef.repCount)
                   => repCount' = repCount + 1
           \/ ~FrameProcessed(pose, clock + d)
       ]_vars

\* a second rep has been counted and shown, and the loop has gone on
C12_Witness ==
  /\ repStateRef.repCount = 2
  /\ repCount = 2
  /\ pc = "estimating"

\* the step fed the first height: topY and bottomY are still unset
FirstFeed == "topY" \notin DOMAIN repStateRef

\* the height the step fed
FedY == fed'.last

\* in a step that feeds FedY in phase top: how far FedY is below the updated
\* topY = min(topY, FedY)
Descent == RatSub(FedY, RatMin(repStateRef.topY, FedY))

\* in a step that feeds FedY in phase bottom: how far FedY is above the
\* updated bottomY = max(bottomY, FedY), and the updated bottomY - topY
Rise == RatSub(RatMax(repStateRef.bottomY, FedY), FedY)
Range == RatSub(RatMax(repStateRef.bottomY, FedY), repStateRef.topY)

\* C13: the three thresholds are strict. A step in phase top moves to bottom
\* only if the descent is more than 52, and stays in top when it is exactly
\* 52; a step in phase bottom counts a rep only if the rise is more than 40
\* and the range more than 70, and with a rise of exactly 40 or a range of
\* exactly 70 it counts nothing and stays in bottom. The first frame only
\* seeds and stays in top.
C13_StrictThresholds ==
  [][ IF FirstFeed
        THEN repStateRef'.phase = "top" /\ repStateRef'.repCount = 0
      ELSE IF repStateRef.phase = "top"
        THEN /\ repStateRef'.phase = "bottom" => RatGt(Descent, Q(52))
             /\ Descent = Q(52) => repStateRef'.phase = "top"
             /\ repStateRef'.repCount = repStateRef.repCount
      ELSE /\ repStateRef'.repCount # repStateRef.repCount
                => (RatGt(Rise, Q(40)) /\ RatGt(Range, Q(70)))
           /\ (Rise = Q(40) \/ Range = Q(70))
                => /\ repStateRef'.repCount = repStateRef.repCount
                   /\ repStateRef'.phase = "bottom"
    ]_vars

\* 0, 52 was fed (no descent), then 70 (descent) and 30: a rise of exactly
\* 40 over a range of exactly 70, and no rep counted
C13_Witness ==
  /\ fed.shape = "falling"
  /\ fed.first = Q(0) /\ fed.peak = Q(70) /\ fed.last = Q(30)
  /\ repStateRef.phase = "bottom"
  /\ RatSub(repStateRef.bottomY, fed.last) = Q(40)
  /\ RatSub(repStateRef.bottomY, repStateRef.topY) = Q(70)
  /\ repStateRef.repCount = 0

\* the step counts a rep
CountStep == repStateRef'.repCount > repStateRef.repCount

\* the step moves the phase from top to bottom
DescentStep == repStateRef.phase = "top" /\ repStateRef'.phase = "bottom"

\* C14: no two consecutive frames both count a rep; a frame counts a rep
\* only if a frame has moved the phase from top to bottom since the previous
\* count (or the start) and its height is more than 40 above (smaller than)
\* the highest height fed since that descent; and a frame moves the phase
\* from top to bottom only if its height is more than 52 below (larger than)
\* the lowest height fed since the previous count (or the first frame).
C14_NoDoubleCount ==
  [][ /\ CountStep =>
           /\ ~seen.counted
           /\ seen.down
           /\ RatGt(RatSub(seen.high, FedY), Q(40))
      /\ DescentStep =>
           /\ ~FirstFeed
           /\ RatGt(RatSub(FedY, seen.low), Q(52))
    ]_vars

\* the last frame counted the second rep
C14_Witness ==
  /\ seen.frames = 1
  /\ seen.counted
  /\ ~seen.down
  /\ repStateRef.repCount = 2

\* the first frame seeds topY and bottomY with its height and stays in top
SeedStep ==
  FirstFeed =>
    /\ repStateRef'.topY = FedY
    /\ repStateRef'.bottomY = FedY
    /\ repStateRef'.phase = "top"

\* C15 as stated: topY is the lowest of all heights fed since the phase
\* last became top (or since the first frame), in phase bottom bottomY is
\* the highest height fed since the phase last became bottom, and no frame
\* met in phase bottom changes topY. Refuted by 30, 100, 0 (the third frame
\* is met in bottom, is lower than topY = 30 and counts nothing: the range is
\* exactly 70) and by 0, 100, 12 (the third frame is met in bottom, counts a
\* rep and sets topY to 12).
C15_AsStated ==
  /\ [](seen.frames = 1 =>
          /\ repStateRef.topY = seen.low
          /\ repStateRef.phase = "bottom" => repStateRef.bottomY = seen.high)
  /\ [][SeedStep]_vars
  /\ [][ (~FirstFeed /\ repStateRef.phase = "bottom")
           => repStateRef'.topY = repStateRef.topY ]_vars

\* C15 (amended): the first frame seeds topY and bottomY with its height and
\* stays in top; afterwards topY is the lowest height fed on the frames met
\* in phase top since the phase last became top (the first frame, or the
\* frame that counted the last rep, included); in phase bottom bottomY is the
\* highest height fed since the phase last became bottom; and a frame met in
\* phase bottom that counts no rep leaves topY alone.
C15_Extremes ==
  /\ [](seen.frames = 1 =>
          /\ repStateRef.topY = seen.lowTop
          /\ repStateRef.phase = "bottom" => repStateRef.bottomY = seen.high)
  /\ [][SeedStep]_vars
  /\ [][ (~FirstFeed /\ repStateRef.phase = "bottom" /\ ~CountStep)
           => repStateRef'.topY = repStateRef.topY ]_vars

\* in phase bottom a height below topY has been fed without counting a rep,
\* after topY had gone below the first height and bottomY above the height
\* of the descent
C15_Witness ==
  /\ seen.frames = 1
  /\ repStateRef.phase = "bottom"
  /\ RatLt(seen.low, repStateRef.topY)
  /\ RatLt(repStateRef.topY, fed.first)
  /\ repStateRef.bottomY = seen.high
  /\ RatLt(fed.last, seen.high)

\* C16: once the first frame has been processed, topY <= bottomY; in phase
\* bottom, bottomY - topY > 52; and right after a frame that counted a rep,
\* bottomY - topY > 40.
C16_TopBelowBottom ==
  /\ []("topY" \in DOMAIN repStateRef =>
          /\ RatLe(repStateRef.topY, repStateRef.bottomY)
          /\ repStateRef.phase = "bottom" =>
               RatGt(RatSub(repStateRef.bottomY, repStateRef.topY), Q(52)))
  /\ [][ CountStep =>
           RatGt(RatSub(repStateRef'.bottomY, repStateRef'.topY), Q(40)) ]_vars

\* the last frame counted a rep and left bottomY - topY at 41, under 52
C16_Witness ==
  /\ seen.frames = 1
  /\ seen.counted
  /\ repStateRef.phase = "top"
  /\ RatSub(repStateRef.bottomY, repStateRef.topY) = Q(41)

\* the six points getPoint finds in pose
Joints(pose) ==
  [leftShoulder |-> getPoint(pose, "left_shoulder"),
   rightShoulder |-> getPoint(pose, "right_shoulder"),
   leftElbow |-> getPoint(pose, "left_elbow"),
   rightElbow |-> getPoint(pose, "right_elbow"),
   leftWrist |-> getPoint(pose, "left_wrist"),
   rightWrist |-> getPoint(pose, "right_wrist")]

\* the samples a frame showing pose contributes: one, or none
OwnSamples(pose) ==
  IF AnyUnavailable(pose) THEN {<<>>}
  ELSE { <<m>> : m \in Sample(Joints(pose)) }

\* m is the arithmetic mean of the non-empty sequence s: m times the
\* number of entries is their sum
IsMeanOf(m, s) == Len(s) > 0 /\ RatSum(s) = Rat(m.num * Len(s), m.den)

\* C17: on a frame that flushes, the three values handed to interpretForm
\* are the arithmetic means of the entries the sequences held before the
\* frame (those appended since the last flush) together with the frame's own
\* sample, if it has one; the feedback and score shown are interpretForm's
\* result for them; and after the frame the three sequences are empty and
\* lastFeedbackTime is the time read on that frame.
C17_FlushMeans ==
  [][ \A pose \in Poses, d \in TimeSteps :
        \/ ~(FlushStep /\ pc = "estimating" /\ clock' = clock + d)
        \/ \E own \in OwnSamples(pose) :
           LET angles == formStatsRef.angles
                           \o [i \in 1..Len(own) |-> own[i].angle]
               stacks == formStatsRef.stacks
                           \o [i \in 1..Len(own) |-> own[i].stack]
               tilts == formStatsRef.tilts
                           \o [i \in 1..Len(own) |-> own[i].tilt]
               form == interpretForm(args'[1], args'[2], args'[3])
           IN  /\ IsMeanOf(args'[1], angles)
               /\ IsMeanOf(args'[2], stacks)
               /\ IsMeanOf(args'[3], tilts)
               /\ feedback' = form.message
               /\ score' = form.score
               /\ formStatsRef'.angles = <<>>
               /\ formStatsRef'.stacks = <<>>
               /\ formStatsRef'.tilts = <<>>
               /\ formStatsRef'.lastFeedbackTime = clock + d
        \/ ~FrameProcessed(pose, clock + d)
    ]_vars

\* a window of three samples has just been flushed: two with wide arms
\* (angle 90, stack 100, tilt 0) and one tilted with straight arms (angle
\* 180, stack 0, tilt 80)
C17_Witness ==
  /\ pc = "scheduled"
  /\ args = <<Q(120), Rat(200, 3), Rat(80, 3)>>
  /\ formStatsRef.angles = <<>>
  /\ formStatsRef.lastFeedbackTime = clock
  /\ clock >= FeedbackWindow

\* C18: the clock never goes back, and under that a frame that flushes (or
\* shows any effect of a flush, a new feedback or score included) does so
\* at least 3000 ms after lastFeedbackTime, which is the time of the last
\* flush or, before the first flush, the time the buffer was created (0);
\* so no flush has happened before time 3000.
C18_FlushesApart ==
  /\ [][clock' >= clock]_vars
  /\ [][ FlushEffect =>
           /\ clock' - formStatsRef.lastFeedbackTime >= 3000
           /\ formStatsRef'.lastFeedbackTime = clock' ]_vars
  /\ []( (args # NoArgs \/ feedback # MsgStart
           \/ formStatsRef.lastFeedbackTime # 0)
          => (clock >= 3000 /\ formStatsRef.lastFeedbackTime >= 3000) )

\* a window was flushed at time 3000, and 2999 ms later samples are
\* waiting, unflushed
C18_Witness ==
  /\ args # NoArgs
  /\ formStatsRef.lastFeedbackTime = 3000
  /\ clock = 5999
  /\ Len(formStatsRef.angles) > 0

\* C19: the feedback and the score shown change only on a frame that
\* flushes, and then to interpretForm's result for the window; every other
\* frame, a frame that counts a rep included, leaves them as they are; and
\* until the first flush (lastFeedbackTime still the creation time) they are
\* the initial message and 100. Holds of part_000; refuted by part_001,
\* whose processPose sets the feedback to "Strong rep! ..." on the frame
\* that counts a rep.
C19_FeedbackOnlyOnFlush ==
  /\ [][ (feedback' # feedback \/ score' # score) => FlushStep ]_vars
  /\ [][ FlushStep =>
           LET form == interpretForm(args'[1], args'[2], args'[3])
           IN  feedback' = form.message /\ score' = form.score ]_vars
  /\ [][ CountStep /\ ~FlushStep => UNCHANGED <<feedback, score>> ]_vars
  /\ [](WindowStart = 0 => (feedback = MsgStart /\ score = InitialScore))

\* part_001 has counted a rep and shows its message, with no flush ever
C19_Witness ==
  /\ formStatsRef = Undefined
  /\ pc = "scheduled"
  /\ repCount = 1
  /\ feedback = MsgStrongRep

\* a frame flushes
FrameFlushes == pc = "estimating" /\ FlushStep

\* a frame that shows all six joints is processed
FullFrame == \E pose \in FullPoses, now \in LiveNows : LiveFrame(pose, now)

\* Date.now() is read d > 0 ms after its last reading: by a frame that
\* shows both shoulders (processPose reaches line 214) or by a render.  A
\* frame that stops before line 214 reads no clock and is none of these.
ClockAdvances ==
  \E now \in LaterNows :
    \/ LiveRender(now)
    \/ \E pose \in Poses :
         /\ ~Unavailable(pose, "left_shoulder")
         /\ ~Unavailable(pose, "right_shoulder")
         /\ LiveFrame(pose, now)

\* C20: if frames that show all six joints are processed again and again,
\* and the clock is read at later and later times again and again, then a
\* frame flushes again and again, for ever; and a processed frame that
\* shows both shoulders and finds a non-empty buffer whose window has
\* passed flushes, publishing interpretForm's result.  (With the window
\* over no frame is held back by a cap, so what keeps the buffer from
\* growing for ever there is the flush.)
C20_FlushRecurs ==
  /\ ([]<><<FullFrame>>_vars /\ []<><<ClockAdvances>>_vars)
       => []<><<FrameFlushes>>_vars
  /\ [][ \A pose \in Poses, now \in LiveNows :
           \/ ~( /\ pc = "estimating"
                 /\ Len(formStatsRef.angles) > 0
                 /\ now - formStatsRef.lastFeedbackTime >= 3000 )
           \/ Unavailable(pose, "left_shoulder")
           \/ Unavailable(pose, "right_shoulder")
           \/ /\ FrameFlushes
              /\ formStatsRef'.angles = <<>>
              /\ feedback' = interpretForm(args'[1], args'[2], args'[3]).message
           \/ ~LiveFrame(pose, now)
       ]_vars

\* a window has been flushed (and the clock's origin moved to that flush),
\* and the next window is nearly over with samples waiting
C20_Witness ==
  /\ args # NoArgs
  /\ formStatsRef.lastFeedbackTime = 0
  /\ clock = FeedbackWindow - 1
  /\ Len(formStatsRef.angles) > 0
  /\ pc = "estimating"

\* the 12 adjacency pairs under the names the pose model reports keypoints
\* (the names getPoint looks up)
ReportedPairs ==
  << <<"left_shoulder", "right_shoulder">>,
     <<"left_shoulder", "left_elbow">>,
     <<"left_elbow", "left_wrist">>,
     <<"right_shoulder", "right_elbow">>,
     <<"right_elbow", "right_wrist">>,
     <<"left_shoulder", "left_hip">>,
     <<"right_shoulder", "right_hip">>,
     <<"left_hip", "right_hip">>,
     <<"left_hip", "left_knee">>,
     <<"left_knee", "left_ankle">>,
     <<"right_hip", "right_knee">>,
     <<"right_knee", "right_ankle">> >>

\* both joints of the i-th pair are in the skeleton with confidence
\* strictly above 0.4
BothAbove(pose, i) ==
  /\ ~Unavailable(pose, ReportedPairs[i][1])
  /\ ~Unavailable(pose, ReportedPairs[i][2])

\* C21: a processed frame leaves on the canvas, for each of the 12
\* adjacency pairs whose two joints (under the names the pose model
\* reports) are both in the skeleton with confidence strictly above 0.4, a
\* segment from the first joint's position to the second's.
C21_SegmentsDrawn ==
  [][ \A pose \in Poses, d \in TimeSteps :
        FrameProcessed(pose, clock + d)
        => \A i \in 1..Len(ReportedPairs) :
             BothAbove(pose, i)
             => Segment(getPoint(pose, ReportedPairs[i][1]),
                        getPoint(pose, ReportedPairs[i][2])) \in strokes'
    ]_vars

\* with the canvas element in place, a frame showing both shoulders above
\* 0.4 has been processed (it seeded the rep machine) and the canvas holds
\* no segment
C21_Witness ==
  /\ pc = "scheduled"
  /\ canvasRef # "null"
  /\ "topY" \in DOMAIN repStateRef
  /\ strokes = {}

====
